---------------------------- MODULE Spec2Model ----------------------------
(***************************************************************************)
(* A model of psych.h: the psychrometric primitives, the Newton-Raphson    *)
(* wet-bulb solver and the psych() dispatcher.                             *)
(*                                                                         *)
(* C doubles are modelled as signed decimal fixed-point numbers with 20    *)
(* fractional digits (every decimal constant of the source is exact at     *)
(* that scale), held as a sign and a little-endian sequence of base-10000  *)
(* limbs, because TLC's own integers are 32 bits wide.  Results of * and / *)
(* are truncated toward zero at the 20th decimal.  The IEEE special values *)
(* the code can produce (NaN, +Inf, -Inf) are kept.                        *)
(***************************************************************************)
EXTENDS Integers, Sequences, FiniteSets

(***************************************************************************)
(* Natural numbers of any size: <<>> is 0, limbs are 0..9999, least        *)
(* significant first, no leading (last) zero limb.                         *)
(***************************************************************************)
Base == 100 * 100

\* the limbs of the fraction: 5 limbs, 20 decimal digits
FracZeros == <<0, 0, 0, 0, 0>>

FracDigits == 4 * Len(FracZeros)

(***************************************************************************)
(* The operations are written so that TLC evaluates them at a small depth  *)
(* and finds a small expression when it expands the definitions: carries   *)
(* are found with quantifiers instead of a recursion over the limbs, and a *)
(* value that is used more than once is passed as an argument.             *)
(***************************************************************************)
Limb(a, i) == IF i >= 1 /\ i <= Len(a) THEN a[i] ELSE 0

IMax(x, y) == IF x > y THEN x ELSE y

IMin(x, y) == IF x < y THEN x ELSE y

IAbs(n) == IF n < 0 THEN -n ELSE n

\* r without its leading zero limbs
NNorm(r) ==
  IF \A i \in 1..Len(r) : r[i] = 0 THEN <<>>
  ELSE SubSeq(r, 1, CHOOSE m \in 1..Len(r) :
                      r[m] # 0 /\ \A j \in (m + 1)..Len(r) : r[j] = 0)

\* the number with digits d, each in 0 .. 2 * Base - 2 and the last below
\* Base - 1: position i receives a carry when a lower position overflows and
\* every position between is full
NCarry(d) ==
  NNorm([i \in 1..Len(d) |->
           (d[i] + (IF \E j \in 1..(i - 1) :
                         d[j] >= Base /\ \A k \in (j + 1)..(i - 1) : d[k] = Base - 1
                    THEN 1 ELSE 0)) % Base])

\* the number with digits d, each in 1 - Base .. Base - 1, when it is not
\* negative: position i lends when a lower position is short and every
\* position between is zero
NBorrow(d) ==
  NNorm([i \in 1..Len(d) |->
           (d[i] + Base - (IF \E j \in 1..(i - 1) :
                                d[j] < 0 /\ \A k \in (j + 1)..(i - 1) : d[k] = 0
                           THEN 1 ELSE 0)) % Base])

NAdd(a, b) == NCarry([i \in 1..(IMax(Len(a), Len(b)) + 1) |-> Limb(a, i) + Limb(b, i)])

\* a - b for a >= b
NSub(a, b) == NBorrow([i \in 1..Len(a) |-> a[i] - Limb(b, i)])

\* -1, 0, 1 as a < b, a = b, a > b
NCmp(a, b) ==
  IF Len(a) # Len(b) THEN (IF Len(a) < Len(b) THEN -1 ELSE 1)
  ELSE IF a = b THEN 0
  ELSE IF \E i \in 1..Len(a) :
            a[i] < b[i] /\ \A j \in (i + 1)..Len(a) : a[j] = b[j]
       THEN -1 ELSE 1

NShift(a, k) == IF a = <<>> THEN <<>> ELSE [i \in 1..k |-> 0] \o a

\* a * k for 0 <= k <= Base
NMulSmall(a, k) ==
  NCarry([i \in 1..(Len(a) + 1) |->
            ((Limb(a, i) * k) % Base) + ((Limb(a, i - 1) * k) \div Base)])

\* t[lo] + ... + t[hi], halving the range
RECURSIVE SumOf(_, _, _)
SumOf(t, lo, hi) ==
  IF lo > hi THEN 0
  ELSE IF lo = hi THEN t[lo]
  ELSE SumOf(t, lo, (lo + hi) \div 2) + SumOf(t, (lo + hi) \div 2 + 1, hi)

\* column k of a * b: the sum of the low (part = 0) or the high (part = 1)
\* halves of the products a[i] * b[k + 1 - i]
NColumn(a, b, k, part) ==
  IF k < 1 \/ k > Len(a) + Len(b) - 1 THEN 0
  ELSE SumOf([i \in IMax(1, k + 1 - Len(b))..IMin(Len(a), k) |->
                IF part = 0 THEN (a[i] * b[k + 1 - i]) % Base
                ELSE (a[i] * b[k + 1 - i]) \div Base],
             IMax(1, k + 1 - Len(b)), IMin(Len(a), k))

\* the columns lo and hi of a product, lo[k] + Base * hi[k] at position k,
\* as one row of digits below 3 * Base
NColumns(lo, hi) ==
  [k \in 1..(Len(lo) + 2) |->
     (Limb(lo, k) % Base) + (Limb(lo, k - 1) \div Base) + (Limb(hi, k - 1) % Base)
       + (Limb(hi, k - 2) \div Base)]


NMulRow(s) ==
  NCarry([k \in 1..(Len(s) + 1) |-> (Limb(s, k) % Base) + (Limb(s, k - 1) \div Base)])

\* a * b, a and b of fewer than 10^4 limbs
NMul(a, b) ==
  IF a = <<>> \/ b = <<>> THEN <<>>
  ELSE NMulRow(NColumns([k \in 1..(Len(a) + Len(b) - 1) |-> NColumn(a, b, k, 0)],
                        [k \in 1..(Len(a) + Len(b) - 1) |-> NColumn(a, b, k, 1)]))

\* one digit of the long division: the quotient of r by b, where b has n limbs,
\* its leading limb is at least Base / 2 and r < b * Base.  qh, the quotient
\* of the two leading limbs of r by the leading limb of b, is at most 2 too
\* large.
NDigitFrom(r, b, qh) ==
  IF NCmp(NMulSmall(b, qh), r) <= 0 THEN qh
  ELSE IF NCmp(NMulSmall(b, qh - 1), r) <= 0 THEN qh - 1
  ELSE qh - 2

NDigit(r, b) ==
  NDigitFrom(r, b, IMin(Base - 1,
                        (Limb(r, Len(b) + 1) * Base + Limb(r, Len(b))) \div b[Len(b)]))

\* long division of a by b, the limbs of a taken from position i down; q holds
\* the digits found and r the remainder so far.  The test on d makes TLC
\* compute the digit before it descends.
RECURSIVE NDivAt(_, _, _, _, _)
NDivStep(a, b, i, q, r1, d) ==
  IF d < 0 THEN <<>> ELSE NDivAt(a, b, i - 1, <<d>> \o q, NSub(r1, NMulSmall(b, d)))

NDivAt(a, b, i, q, r) ==
  IF i = 0 THEN NNorm(q)
  ELSE IF r = <<>> /\ a[i] = 0 THEN NDivAt(a, b, i - 1, <<0>> \o q, <<>>)
  ELSE NDivStep(a, b, i, q, <<a[i]>> \o r, NDigit(<<a[i]>> \o r, b))

\* the leading limbs of a that are fewer than those of b give no digit
NDivScaled(a, b) ==
  IF Len(a) < Len(b) THEN <<>>
  ELSE NDivAt(a, b, Len(a) - Len(b) + 1, <<>>, SubSeq(a, Len(a) - Len(b) + 2, Len(a)))

\* the quotient of a by b > 0; both are scaled by f first so that the leading
\* limb of the divisor is at least Base / 2
NDivBy(a, b, f) == NDivScaled(NMulSmall(a, f), NMulSmall(b, f))

NDiv(a, b) == NDivBy(a, b, Base \div (b[Len(b)] + 1))

(***************************************************************************)
(* Fixed-point doubles: [s, m] with s = 1 or -1 and m the magnitude in     *)
(* units of 10^-20 (zero is s = 1, m = <<>>); s = 0 is NaN, s = 2 is +Inf, *)
(* s = -2 is -Inf.                                                         *)
(***************************************************************************)
Mk(s, m) == IF m = <<>> THEN [s |-> 1, m |-> <<>>] ELSE [s |-> s, m |-> m]

NaN == [s |-> 0, m |-> <<>>]

Inf(sg) == [s |-> 2 * sg, m |-> <<>>]

IsNaN(x) == x.s = 0

IsInf(x) == x.s = 2 \/ x.s = -2

IsFin(x) == x.s = 1 \/ x.s = -1

IsZero(x) == IsFin(x) /\ x.m = <<>>

Sgn(x) == IF x.s > 0 THEN 1 ELSE -1

\* s * a * p * Base^q * 10^-20 for a natural a below 2^31 and p = 1, 10, 100
\* or 1000
FxScaled(s, a, q, p) ==
  Mk(s, NNorm([i \in 1..q |-> 0] \o
              << (a % (Base \div p)) * p,
                 (a \div (Base \div p)) % Base,
                 ((a \div (Base \div p)) \div Base) % Base,
                 (a \div (Base \div p)) \div (Base * Base) >>))

\* the double nearest an int (exact)
FxInt(n) == FxScaled(IF n < 0 THEN -1 ELSE 1, IAbs(n), Len(FracZeros), 1)

\* the decimal literal n * 10^-k, 0 <= k <= 20
DecE(n, k) ==
  FxScaled(IF n < 0 THEN -1 ELSE 1, IAbs(n), (FracDigits - k) \div 4,
           10 ^ ((FracDigits - k) % 4))

\* the literal i.abcde for t = <<i, a, b, c, d, e>>, each of a..e a group of
\* four decimals; Len(t) makes TLC compute t once, before its elements are
\* taken
LitOf(t) == IF Len(t) = 0 THEN NaN ELSE Mk(1, NNorm(<<t[6], t[5], t[4], t[3], t[2], t[1]>>))

FxNeg(x) == IF IsNaN(x) THEN NaN ELSE IF IsInf(x) THEN Inf(-Sgn(x)) ELSE Mk(-x.s, x.m)

FxAbs(x) == IF IsNaN(x) THEN NaN ELSE IF IsInf(x) THEN Inf(1) ELSE Mk(1, x.m)

\* big - small with the sign of big
FxDiff(big, small) == Mk(big.s, NSub(big.m, small.m))

FxAdd(x, y) ==
  IF IsNaN(x) \/ IsNaN(y) THEN NaN
  ELSE IF IsInf(x) THEN (IF IsInf(y) /\ y.s # x.s THEN NaN ELSE x)
  ELSE IF IsInf(y) THEN y
  ELSE IF x.s = y.s THEN Mk(x.s, NAdd(x.m, y.m))
  ELSE IF NCmp(x.m, y.m) >= 0 THEN FxDiff(x, y)
  ELSE FxDiff(y, x)

NDropFrac(m) == IF Len(m) <= Len(FracZeros) THEN <<>> ELSE SubSeq(m, Len(FracZeros) + 1, Len(m))

FxMul(x, y) ==
  IF IsNaN(x) \/ IsNaN(y) THEN NaN
  ELSE IF IsInf(x) \/ IsInf(y)
       THEN (IF IsZero(x) \/ IsZero(y) THEN NaN ELSE Inf(Sgn(x) * Sgn(y)))
  ELSE Mk(x.s * y.s, NDropFrac(NMul(x.m, y.m)))

FxDiv(x, y) ==
  IF IsNaN(x) \/ IsNaN(y) THEN NaN
  ELSE IF IsInf(x) THEN (IF IsInf(y) THEN NaN ELSE Inf(Sgn(x) * Sgn(y)))
  ELSE IF IsInf(y) THEN Mk(1, <<>>)
  ELSE IF IsZero(y) THEN (IF IsZero(x) THEN NaN ELSE Inf(Sgn(x)))
  ELSE Mk(x.s * y.s, NDiv(NShift(x.m, Len(FracZeros)), y.m))

\* the C comparisons: every comparison with a NaN is false
FxLt(x, y) ==
  IF IsNaN(x) \/ IsNaN(y) THEN FALSE
  ELSE IF IsInf(x) \/ IsInf(y) THEN x.s < y.s /\ (IsInf(x) \/ y.s > 0) /\ (IsInf(y) \/ x.s < 0)
  ELSE IF x.s # y.s THEN x.s < y.s
  ELSE NCmp(x.m, y.m) = -x.s

FxGt(x, y) == FxLt(y, x)

FxLe(x, y) == ~IsNaN(x) /\ ~IsNaN(y) /\ ~FxLt(y, x)

FxGe(x, y) == FxLe(y, x)

\* the integer part of a finite x with |x| < 10^8, toward zero
FxTrunc(x) ==
  x.s * (Limb(x.m, Len(FracZeros) + 1) + Base * Limb(x.m, Len(FracZeros) + 2))

\* the greatest integer not above a finite x with |x| < 10^8
FxFloor(x) ==
  IF x.s < 0 /\ \E i \in 1..Len(FracZeros) : Limb(x.m, i) # 0 THEN FxTrunc(x) - 1
  ELSE FxTrunc(x)

Fx0 == FxInt(0)

Fx1 == FxInt(1)

Fx2 == FxInt(2)

(***************************************************************************)
(* C expressions.  An expression is a double or an operator applied to     *)
(* expressions; Eval computes its value.  The functions of the source are  *)
(* written as the expressions they return.                                 *)
(***************************************************************************)
Add(a, b) == [op |-> "add", a |-> a, b |-> b]

Sub(a, b) == [op |-> "sub", a |-> a, b |-> b]

Mul(a, b) == [op |-> "mul", a |-> a, b |-> b]

Div(a, b) == [op |-> "div", a |-> a, b |-> b]

Neg(a) == [op |-> "neg", a |-> a]

\* <math.h>: exp(a), log(a), pow(a, b)
Exp(a) == [op |-> "exp", a |-> a]

Log(a) == [op |-> "log", a |-> a]

Pow(a, b) == [op |-> "pow", a |-> a, b |-> b]

\* pow(a, n) for the whole exponents 2, 3, 4 of the source
PowInt(a, n) == [op |-> "powint", a |-> a, n |-> n]

\* a * 2^k
Scale2(a, k) == [op |-> "scale2", a |-> a, k |-> k]

\* coef[1] + v * (coef[2] + v * (... + v * coef[n])), from the inside out:
\* acc is the value of the bracket that starts at coef[i + 1]
Horner(coef, v, i, acc) == [op |-> "horner", coef |-> coef, v |-> v, i |-> i, acc |-> acc]

(***************************************************************************)
(* exp splits its argument into k * ln 2 + j / 32 + v, takes exp(j / 32)   *)
(* from a table, sums the Taylor polynomial at v and scales by 2^k; log    *)
(* scales its argument into [1, 2), picks the nearest of eight knots c and *)
(* sums the atanh series at (y - c) / (y + c).  Both agree with the        *)
(* library to about 18 decimals.                                           *)
(***************************************************************************)
Ln2 == LitOf(<<0, 6931, 4718, 559, 9453, 942>>)

Log2E == LitOf(<<1, 4426, 9504, 888, 9634, 736>>)

\* ln(10^4)
LnBase == LitOf(<<9, 2103, 4037, 1976, 1827, 3607>>)

\* 1 / i! for i = 1 .. 10
InvFact ==
  << <<1, 0, 0, 0, 0, 0>>,
     <<0, 5000, 0, 0, 0, 0>>,
     <<0, 1666, 6666, 6666, 6666, 6667>>,
     <<0, 416, 6666, 6666, 6666, 6667>>,
     <<0, 83, 3333, 3333, 3333, 3333>>,
     <<0, 13, 8888, 8888, 8888, 8889>>,
     <<0, 1, 9841, 2698, 4126, 9841>>,
     <<0, 0, 2480, 1587, 3015, 8730>>,
     <<0, 0, 275, 5731, 9223, 9859>>,
     <<0, 0, 27, 5573, 1922, 3986>> >>

\* exp(j / 32) for j = 0 .. 22
ExpKnot ==
  << <<1, 0, 0, 0, 0, 0>>,
     <<1, 317, 4340, 7499, 1026, 7094>>,
     <<1, 644, 9445, 8917, 8594, 2956>>,
     <<1, 982, 8514, 307, 8258, 4865>>,
     <<1, 1331, 4845, 3066, 8263, 1683>>,
     <<1, 1691, 1844, 6169, 5044, 230>>,
     <<1, 2062, 3024, 9420, 9807, 1066>>,
     <<1, 2445, 2010, 7766, 951, 5495>>,
     <<1, 2840, 2541, 6687, 7414, 8407>>,
     <<1, 3247, 8475, 8728, 8655, 6894>>,
     <<1, 3668, 3794, 1173, 7963, 6284>>,
     <<1, 4102, 2603, 4925, 7107, 570>>,
     <<1, 4549, 9141, 4618, 2013, 3605>>,
     <<1, 5011, 7780, 0, 1227, 5190>>,
     <<1, 5488, 3029, 8634, 1330, 9800>>,
     <<1, 5979, 9544, 9950, 6332, 6790>>,
     <<1, 6487, 2127, 700, 1281, 4685>>,
     <<1, 7010, 5730, 1848, 4006, 7941>>,
     <<1, 7550, 5465, 6960, 2985, 5724>>,
     <<1, 8107, 6607, 2119, 3871, 6412>>,
     <<1, 8682, 4595, 7432, 2224, 650>>,
     <<1, 9275, 5045, 167, 5446, 6459>>,
     <<1, 9887, 3746, 9582, 2918, 3112>> >>

\* 1 / (2n - 1) for n = 1 .. 8
OddRecip ==
  << <<1, 0, 0, 0, 0, 0>>,
     <<0, 3333, 3333, 3333, 3333, 3333>>,
     <<0, 2000, 0, 0, 0, 0>>,
     <<0, 1428, 5714, 2857, 1428, 5714>>,
     <<0, 1111, 1111, 1111, 1111, 1111>>,
     <<0, 909, 909, 909, 909, 909>>,
     <<0, 769, 2307, 6923, 769, 2308>>,
     <<0, 666, 6666, 6666, 6666, 6667>> >>

\* the knots (2i + 15) / 16 for i = 1 .. 8 and their logarithms
Knot(i) == DecE(625 * (2 * i + 15), 4)

LnKnot ==
  << <<0, 606, 2462, 1816, 4348, 4258>>,
     <<0, 1718, 5025, 6926, 6592, 2234>>,
     <<0, 2719, 3371, 5483, 6417, 5883>>,
     <<0, 3629, 549, 3689, 3684, 5314>>,
     <<0, 4462, 8710, 2628, 4195, 1153>>,
     <<0, 5232, 4814, 3764, 5478, 3652>>,
     <<0, 5947, 710, 7746, 6927, 8951>>,
     <<0, 6613, 9848, 2245, 3650, 826>> >>

RECURSIVE Eval(_)
\* exp(k * ln 2 + j / 32 + v) for 0 <= j <= 22 and |v| < 1 / 32
ExpTaylor(k, j, v) ==
  Eval(Scale2(Mul(LitOf(ExpKnot[j + 1]),
                  Add(Fx1, Mul(v, Horner(InvFact, v, Len(InvFact) - 1,
                                         LitOf(InvFact[Len(InvFact)]))))), k))

ExpKnotAt(k, r, j) == ExpTaylor(k, j, Eval(Sub(r, DecE(3125 * j, 5))))

\* exp(k * ln 2 + r) for r from 0 to ln 2
ExpRest(k, r) == ExpKnotAt(k, r, IMin(Len(ExpKnot) - 1, FxTrunc(Eval(Mul(r, FxInt(32))))))

ExpSplit(x, k) == ExpRest(k, Eval(Sub(x, Mul(FxInt(k), Ln2))))

\* exp overflows a double above 709.78 and is below 10^-20 under -47
ExpOf(x) ==
  IF IsNaN(x) THEN NaN
  ELSE IF IsInf(x) \/ Len(x.m) > Len(FracZeros) + 1 \/ FxTrunc(x) >= 710 \/ FxTrunc(x) <= -47
       THEN (IF x.s > 0 THEN Inf(1) ELSE Fx0)
  ELSE ExpSplit(x, FxFloor(Eval(Mul(x, Log2E))))

\* 2 * atanh(z) for |z| < 1 / 32
Atanh2(z) ==
  Mul(Fx2, Mul(z, Horner(OddRecip, Eval(Mul(z, z)), Len(OddRecip) - 1,
                         LitOf(OddRecip[Len(OddRecip)]))))

\* ln(10^(4j) * 2^e * y) for 1 <= y < 2, i the knot next to y
LnSum(j, e, y, i) ==
  Eval(Add(Add(Mul(FxInt(j), LnBase), Mul(FxInt(e), Ln2)),
           Add(LitOf(LnKnot[i]), Atanh2(Eval(Div(Sub(y, Knot(i)), Add(y, Knot(i))))))))

LnKnotAt(j, e, y) == LnSum(j, e, y, Limb(y.m, Len(FracZeros)) \div 1250 + 1)

\* m1 holds the six leading limbs of the argument, a value from 1 to 9999
LnBinary(j, m1, e) == LnKnotAt(j, e, Eval(Mul(Mk(1, m1), DecE(5 ^ e, e))))

LnLimbs(j, m1) ==
  LnBinary(j, m1, CHOOSE e \in 0..13 : 2 ^ e <= m1[Len(m1)] /\ m1[Len(m1)] < 2 ^ (e + 1))

LnScaled(m, j) ==
  LnLimbs(j, IF j >= 0 THEN SubSeq(m, j + 1, Len(m)) ELSE NShift(m, -j))

LogOf(x) ==
  IF IsNaN(x) THEN NaN
  ELSE IF IsZero(x) THEN Inf(-1)
  ELSE IF Sgn(x) < 0 THEN NaN
  ELSE IF IsInf(x) THEN Inf(1)
  ELSE LnScaled(x.m, Len(x.m) - Len(FracZeros) - 1)

\* the value of the expression e
Eval(e) ==
  IF "op" \notin DOMAIN e THEN e
  ELSE CASE e.op = "add" -> FxAdd(Eval(e.a), Eval(e.b))
         [] e.op = "mul" -> FxMul(Eval(e.a), Eval(e.b))
         [] e.op = "sub" -> Eval(Add(e.a, Neg(e.b)))
         [] e.op = "div" -> FxDiv(Eval(e.a), Eval(e.b))
         [] e.op = "neg" -> FxNeg(Eval(e.a))
         [] e.op = "horner" ->
              IF e.i = 0 THEN e.acc
              ELSE Eval(Horner(e.coef, e.v, e.i - 1,
                               Eval(Add(LitOf(e.coef[e.i]), Mul(e.v, e.acc)))))
         [] e.op = "scale2" ->
              IF e.k = 0 THEN Eval(e.a)
              ELSE IF e.k > 0
                   THEN Eval(Scale2(Mul(e.a, FxInt(2 ^ IMin(e.k, 30))), e.k - IMin(e.k, 30)))
                   ELSE Eval(Scale2(Div(e.a, FxInt(2 ^ IMin(-e.k, 30))), e.k + IMin(-e.k, 30)))
         [] e.op = "powint" ->
              IF e.n = 1 THEN Eval(e.a) ELSE Eval(Mul(e.a, PowInt(e.a, e.n - 1)))
         [] e.op = "exp" -> ExpOf(Eval(e.a))
         [] e.op = "log" -> LogOf(Eval(e.a))
         [] e.op = "pow" -> Eval(Exp(Mul(e.b, Log(e.a))))

(***************************************************************************)
(* The primitive property functions of psych.h.                            *)
(***************************************************************************)
\* the ratio of the molecular masses of water and dry air
MwRatio == DecE(62198, 5)

part_press(P, W) == Eval(Div(Mul(P, W), Add(MwRatio, W)))

C1 == DecE(-56745359, 4)

C2 == DecE(63925247, 7)

C3 == DecE(-9677843, 9)

C4 == DecE(62215701, 14)

C5 == DecE(20747825, 16)

C6 == DecE(-9484024, 19)

C7 == DecE(41635019, 7)

C8 == DecE(-58002206, 4)

C9 == DecE(13914993, 7)

C10 == DecE(-48640239, 9)

C11 == DecE(41764768, 12)

C12 == DecE(-14452093, 15)

C13 == DecE(65459673, 7)

Kelvin0 == DecE(27315, 2)

Fx1000 == FxInt(1000)

\* the correlation over ice, TK <= 273.15
sat_press_ice(TK) ==
  Div(Exp(Add(Add(Add(Add(Add(Add(
        Div(C1, TK), C2), Mul(C3, TK)), Mul(C4, PowInt(TK, 2))),
        Mul(C5, PowInt(TK, 3))), Mul(C6, PowInt(TK, 4))),
        Mul(C7, Log(TK)))), Fx1000)

\* the correlation over liquid water, TK > 273.15
sat_press_liquid(TK) ==
  Div(Exp(Add(Add(Add(Add(Add(
        Div(C8, TK), C9), Mul(C10, TK)), Mul(C11, PowInt(TK, 2))),
        Mul(C12, PowInt(TK, 3))), Mul(C13, Log(TK)))), Fx1000)

sat_press_TK(TK) ==
  Eval(IF FxLe(TK, Kelvin0) THEN sat_press_ice(TK) ELSE sat_press_liquid(TK))

sat_press(Tdb) == sat_press_TK(Eval(Add(Tdb, Kelvin0)))

\* the humidity ratio at saturation for the saturation pressure Pws
Ws(P, Pws) == Div(Mul(MwRatio, Pws), Sub(P, Pws))

hum_rat_Pws(Tdb, Twb, P, Pws) ==
  Eval(IF FxGe(Tdb, Fx0)
       THEN Div(Sub(Mul(Sub(FxInt(2501), Mul(DecE(2326, 3), Twb)), Ws(P, Pws)),
                    Mul(DecE(1006, 3), Sub(Tdb, Twb))),
                Sub(Add(FxInt(2501), Mul(DecE(186, 2), Tdb)), Mul(DecE(4186, 3), Twb)))
       ELSE Div(Sub(Mul(Sub(FxInt(2830), Mul(DecE(24, 2), Twb)), Ws(P, Pws)),
                    Mul(DecE(1006, 3), Sub(Tdb, Twb))),
                Sub(Add(FxInt(2830), Mul(DecE(186, 2), Tdb)), Mul(DecE(21, 1), Twb))))

hum_rat(Tdb, Twb, P) == hum_rat_Pws(Tdb, Twb, P, sat_press(Twb))

hum_rat2_Pws(RH, P, Pws) == Eval(Div(Mul(Mul(MwRatio, RH), Pws), Sub(P, Mul(RH, Pws))))

hum_rat2(Tdb, RH, P) == hum_rat2_Pws(RH, P, sat_press(Tdb))

rel_hum2(Tdb, W, P) == Eval(Div(part_press(P, W), sat_press(Tdb)))

rel_hum(Tdb, Twb, P) == rel_hum2(Tdb, hum_rat(Tdb, Twb, P), P)

enthalpy_air_h2o(Tdb, W) ==
  Eval(Add(Mul(DecE(1006, 3), Tdb), Mul(W, Add(FxInt(2501), Mul(DecE(186, 2), Tdb)))))

C14 == DecE(654, 2)

C15 == DecE(14526, 3)

C16 == DecE(7389, 4)

C17 == DecE(9486, 5)

C18 == DecE(4569, 4)

Tdp1(Pw, alpha) ==
  Add(Add(Add(Add(C14, Mul(C15, alpha)), Mul(C16, PowInt(alpha, 2))),
          Mul(C17, PowInt(alpha, 3))), Mul(C18, Pow(Pw, DecE(1984, 4))))

Tdp2(alpha) ==
  Add(Add(DecE(609, 2), Mul(DecE(12608, 3), alpha)), Mul(DecE(4959, 4), PowInt(alpha, 2)))

dew_point_Tdp1(alpha, t1) == IF FxGe(t1, Fx0) THEN t1 ELSE Eval(Tdp2(alpha))

dew_point_alpha(Pw, alpha) == dew_point_Tdp1(alpha, Eval(Tdp1(Pw, alpha)))

dew_point_Pw(Pw) == dew_point_alpha(Pw, Eval(Log(Pw)))

dew_point(P, W) == dew_point_Pw(part_press(P, W))

R_da == DecE(287055, 3)

dry_air_density(P, Tdb, W) ==
  Eval(Div(Mul(Fx1000, P),
           Mul(Mul(R_da, Add(Kelvin0, Tdb)), Add(Fx1, Mul(DecE(16078, 4), W)))))

(***************************************************************************)
(* psych(P, Tdb, inValue, inType, outType, SIq) and the wet_bulb solver it *)
(* calls, as a program: one action per block of the source.                *)
(*                                                                         *)
(* The locals Twb, Dew, RH, W, h, out are declared without initializer     *)
(* (line 280).  A read of a local that was not assigned yet yields an      *)
(* indeterminate value, drawn from IndetVals.  unset holds the locals not  *)
(* assigned so far, badReads those read while unset, tainted those whose   *)
(* value was computed from such a read.                                    *)
(***************************************************************************)
VARIABLES pc, argP, argTdb, argIn, P, Tdb, inValue, inType, outType, SIq,
          loc, unset, badReads, tainted, wb, ret

vars == <<pc, argP, argTdb, argIn, P, Tdb, inValue, inType, outType, SIq,
          loc, unset, badReads, tainted, wb, ret>>

Locals == {"Twb", "Dew", "RH", "W", "h", "out"}

\* selectors offered by the callers of the model: 1..7 and 1..11 hold every
\* code of the source's table and codes outside it
MaxInType == 7

MaxOutType == 11

MaxSIq == 2

InTypes == 1..MaxInType

OutTypes == 1..MaxOutType

SIqs == 0..MaxSIq

\* barometric pressures (101325 Pa, 14.696 PSI), a dry bulb and the values
\* callers pass for inValue: a fraction, as a relative humidity is, and a
\* whole number
PVals == {FxInt(101325), DecE(14696, 3)}

TdbVals == {FxInt(24)}

ArgVals == {DecE(5, 1), FxInt(17)}

\* what an indeterminate double may hold
IndetVals == {Fx0, FxInt(17)}

NoLoc == [v \in Locals |-> Fx0]

NoWb ==
  [W_normal |-> Fx0, Wet_bulb |-> Fx0, W_new |-> Fx0, guess |-> Fx0,
   next |-> [u \in IndetVals |-> [W_new |-> Fx0, again |-> {FALSE}]]]

Init ==
  /\ pc = "idle"
  /\ argP = Fx0 /\ argTdb = Fx0 /\ argIn = Fx0
  /\ P = Fx0 /\ Tdb = Fx0 /\ inValue = 0
  /\ inType = 0 /\ outType = 0 /\ SIq = 0
  /\ loc = NoLoc /\ unset = Locals /\ badReads = {} /\ tainted = {}
  /\ wb = NoWb /\ ret = Fx0

\* line 254: the argument for the parameter "int inValue" is converted to int
IntParam(a) == FxTrunc(a)

\* lines 254, 280: a call; the locals are declared and hold nothing yet
Call(p, t, a, it, ot, sq) ==
  /\ pc = "idle"
  /\ pc' = "normalize"
  /\ argP' = p /\ argTdb' = t /\ argIn' = a
  /\ P' = p /\ Tdb' = t /\ inValue' = IntParam(a)
  /\ inType' = it /\ outType' = ot /\ SIq' = sq
  /\ loc' = NoLoc /\ unset' = Locals /\ badReads' = {} /\ tainted' = {}
  /\ UNCHANGED <<wb, ret>>

\* some caller calls psych with arguments of the sets above
Invoke ==
  /\ pc = "idle"
  /\ \E p \in PVals, t \in TdbVals, a \in ArgVals,
        it \in InTypes, ot \in OutTypes, sq \in SIqs : Call(p, t, a, it, ot, sq)

(***************************************************************************)
(* Lines 282-337: the inputs are brought to SI.                            *)
(***************************************************************************)
\* line 282: the input side takes every SIq but 1 for US customary units
InputIsSI(sq) == sq = 1

\* lines 310, 316, 320
F2C(x) == Eval(Div(Sub(x, FxInt(32)), DecE(18, 1)))

Inch == DecE(254, 4)

\* line 311: newtons in a pound-force
LbfIn == LitOf(<<4, 4482, 2161, 5260, 5000, 0>>)

\* line 311: PSI to kPa
PsiToKPa(x) == Eval(Div(Div(Mul(x, LbfIn), PowInt(Inch, 2)), Fx1000))

KJperBTU == DecE(1055056, 6)

KGperLB == DecE(45359237, 8)

\* line 331: the zero-point difference on the way in
HOffIn == LitOf(<<17, 8844, 4444, 4000, 0, 0>>)

\* line 331: BTU/lb to kJ/kg
HToSI(x) == Eval(Sub(Div(Mul(x, KJperBTU), KGperLB), HOffIn))

\* lines 284, 311
PaToKPa(x) == Eval(Div(x, Fx1000))

\* an input side that would take every pressure for PSI
NormPFromPsi(sq, p) == PsiToKPa(p)

\* lines 284, 311
NormP(sq, p) == IF InputIsSI(sq) THEN PaToKPa(p) ELSE PsiToKPa(p)

\* line 310
NormTdb(sq, t) == IF InputIsSI(sq) THEN t ELSE F2C(t)

\* lines 285-306, 312-335: the local the input is stored in, if any
InVar(it) ==
  CASE it = 1 -> {"Twb"}
    [] it = 2 -> {"Dew"}
    [] it = 3 -> {"RH"}
    [] it = 4 -> {"W"}
    [] it = 7 -> {"h"}
    [] OTHER  -> {}

\* lines 288-304, 315-331: the value stored
NormIn(sq, it, iv) ==
  IF InputIsSI(sq) THEN FxInt(iv)
  ELSE CASE it = 1 -> F2C(FxInt(iv))
         [] it = 2 -> F2C(FxInt(iv))
         [] it = 7 -> HToSI(FxInt(iv))
         [] OTHER  -> FxInt(iv)

Normalize ==
  /\ pc = "normalize"
  /\ pc' = "resolve"
  /\ P' = NormP(SIq, P)
  /\ Tdb' = NormTdb(SIq, Tdb)
  /\ loc' = [v \in Locals |-> IF v \in InVar(inType)
                               THEN NormIn(SIq, inType, inValue) ELSE loc[v]]
  /\ unset' = unset \ InVar(inType)
  /\ UNCHANGED <<argP, argTdb, argIn, inValue, inType, outType, SIq,
                 badReads, tainted, wb, ret>>

(***************************************************************************)
(* Lines 339-379: RH is found when RH or the wet bulb is asked for, W      *)
(* otherwise.                                                              *)
(***************************************************************************)
WantRH(ot) == ot = 3 \/ ot = 1

\* lines 355, 376: the enthalpy equation solved for W
WFromH(t, h) ==
  Eval(Div(Sub(Mul(DecE(1006, 3), t), h), Neg(Add(FxInt(2501), Mul(DecE(186, 2), t)))))

\* line 367
WFromPws(p, Pws) == Eval(Div(Mul(DecE(621945, 6), Pws), Sub(p, Pws)))

WFromDew(p, dew) == WFromPws(p, sat_press(dew))

\* the locals the switch reads; "case 4:" of the else branch (line 373) has
\* no break and runs the statement of "case 7:", which reads h
ResolveReads(it, ot) ==
  IF WantRH(ot)
  THEN CASE it = 1 -> {"Twb"}
         [] it = 2 -> {"Dew"}
         [] it = 4 -> {"W"}
         [] it = 7 -> {"h"}
         [] OTHER  -> {}
  ELSE CASE it = 1 -> {"Twb"}
         [] it = 2 -> {"Dew"}
         [] it = 3 -> {"RH"}
         [] it = 4 -> {"h"}
         [] it = 7 -> {"h"}
         [] OTHER  -> {}

\* the locals the switch assigns
ResolveWrites(it, ot) ==
  IF WantRH(ot)
  THEN CASE it \in {1, 2, 4} -> {"RH"}
         [] it = 7 -> {"W", "RH"}
         [] OTHER  -> {}
  ELSE CASE it \in {1, 2, 3, 4, 7} -> {"W"}
         [] OTHER  -> {}

\* lines 355, 364-376: W after the switch; rd gives the locals as read
ResolveW(it, ot, t, p, rd) ==
  IF WantRH(ot)
  THEN WFromH(t, rd["h"])
  ELSE CASE it = 1 -> hum_rat(t, rd["Twb"], p)
         [] it = 2 -> WFromDew(p, rd["Dew"])
         [] it = 3 -> hum_rat2(t, rd["RH"], p)
         [] it = 4 -> WFromH(t, rd["h"])
         [] it = 7 -> WFromH(t, rd["h"])

\* lines 343-357: RH after the switch
ResolveRH(it, t, p, rd) ==
  CASE it = 1 -> rel_hum(t, rd["Twb"], p)
    [] it = 2 -> Eval(Div(sat_press(rd["Dew"]), sat_press(t)))
    [] it = 4 -> Eval(Div(part_press(p, rd["W"]), sat_press(t)))
    [] it = 7 -> Eval(Div(part_press(p, WFromH(t, rd["h"])), sat_press(t)))

\* the values a block can read: an unset local reads as g
Reading(g) == [v \in Locals |-> IF v \in unset THEN g ELSE loc[v]]

\* the indeterminate values to draw when the locals rs are read
Draw(rs) == IF rs \cap unset # {} THEN IndetVals ELSE {Fx0}

Resolve ==
  /\ pc = "resolve"
  /\ pc' = "output"
  /\ \E g \in Draw(ResolveReads(inType, outType)) :
       LET rd == Reading(g)
           rs == ResolveReads(inType, outType)
           ws == ResolveWrites(inType, outType)
       IN  /\ loc' = [v \in Locals |->
                        IF v \notin ws THEN loc[v]
                        ELSE IF v = "W" THEN ResolveW(inType, outType, Tdb, P, rd)
                        ELSE ResolveRH(inType, Tdb, P, rd)]
           /\ unset' = unset \ ws
           /\ badReads' = badReads \cup (rs \cap unset)
           /\ tainted' = IF rs \cap (unset \cup tainted) # {}
                         THEN tainted \cup ws ELSE tainted \ ws
  /\ UNCHANGED <<argP, argTdb, argIn, P, Tdb, inValue, inType, outType, SIq, wb, ret>>

(***************************************************************************)
(* Lines 382-416: the requested property.                                  *)
(***************************************************************************)
OutReads(ot) ==
  CASE ot \in {1, 3} -> {"RH"}
    [] ot \in {2, 4, 5, 6, 7, 9, 10} -> {"W"}
    [] OTHER -> {}

\* the codes with a case in the switch
OutCases == 1..10

\* line 407
EntropyOut == FxInt(-9999)

\* lines 388-414, all cases but the wet bulb's
OutValue(ot, t, p, rd) ==
  CASE ot = 2  -> dew_point(p, rd["W"])
    [] ot = 3  -> rd["RH"]
    [] ot = 4  -> rd["W"]
    [] ot = 5  -> Eval(Mul(part_press(p, rd["W"]), Fx1000))
    [] ot = 6  -> Eval(Div(rd["W"], hum_rat2(t, Fx1, p)))
    [] ot = 7  -> enthalpy_air_h2o(t, rd["W"])
    [] ot = 8  -> EntropyOut
    [] ot = 9  -> Eval(Div(Fx1, dry_air_density(p, t, rd["W"])))
    [] ot = 10 -> Eval(Mul(dry_air_density(p, t, rd["W"]), Add(Fx1, rd["W"])))

\* line 155: abs is int abs(int), so the quotient is converted to int; the
\* doubles from 2^31 on have no int
IntLimit == Eval(Add(FxInt(2147483647), Fx1))

\* (double) abs((int) q) for |q| < 2^31
IntAbs(q) == Mk(1, NShift(NDropFrac(q.m), Len(FracZeros)))

LoopTestOn(q) ==
  IF IsFin(q) /\ FxLt(FxAbs(q), IntLimit)
  THEN {FxGt(IntAbs(q), DecE(1, 5))}
  ELSE {TRUE, FALSE}

\* line 155: the outcomes of abs((W_new - W_normal) / W_normal) > 0.00001
LoopTest(W_new, W_normal) == LoopTestOn(Eval(Div(Sub(W_new, W_normal), W_normal)))

\* lines 153, 155: an iteration's W_new and the outcomes of its test
WbNext(W_normal, W_new) == [W_new |-> W_new, again |-> LoopTest(W_new, W_normal)]

\* lines 145, 146 and, ahead of the loop, what an iteration does for each
\* value the inner Wet_bulb may hold: Tdb, P and W_normal do not change in
\* the loop, so an iteration depends on that value alone
WbEnterAt(t, p, W_normal) ==
  [W_normal |-> W_normal, Wet_bulb |-> t, W_new |-> hum_rat(t, t, p), guess |-> t,
   next |-> [u \in IndetVals |-> WbNext(W_normal, hum_rat(t, u, p))]]

\* lines 142-146: wet_bulb(Tdb, RH, P) up to its loop
WbEnter(t, rh, p) == WbEnterAt(t, p, hum_rat2(t, rh, p))

Output ==
  /\ pc = "output"
  /\ \E g \in Draw(OutReads(outType)) :
       LET rd == Reading(g)
           rs == OutReads(outType)
       IN  /\ badReads' = badReads \cup (rs \cap unset)
           /\ IF outType = 1
              THEN /\ pc' = "wb_loop"
                   /\ wb' = WbEnter(Tdb, rd["RH"], P)
                   /\ UNCHANGED <<loc, unset, tainted>>
              ELSE /\ pc' = "denormalize"
                   /\ wb' = wb
                   /\ IF outType \in OutCases
                      THEN /\ loc' = [loc EXCEPT !["out"] = OutValue(outType, Tdb, P, rd)]
                           /\ unset' = unset \ {"out"}
                           /\ tainted' = IF rs \cap (unset \cup tainted) # {}
                                         THEN tainted \cup {"out"} ELSE tainted
                      ELSE UNCHANGED <<loc, unset, tainted>>
  /\ UNCHANGED <<argP, argTdb, argIn, P, Tdb, inValue, inType, outType, SIq, ret>>

(***************************************************************************)
(* Lines 148-156: the loop of wet_bulb.  Line 152 declares a new Wet_bulb  *)
(* inside the block and initializes it from itself: the initializer reads  *)
(* the inner variable before it holds a value, so what the inner variable  *)
(* receives, an indeterminate value less the Newton correction, is         *)
(* indeterminate (u), anew in every iteration.  The outer Wet_bulb, which  *)
(* lines 150 and 156 use, is never assigned again.  abs is int abs(int):   *)
(* the quotient is converted to int, which is undefined for a NaN, an      *)
(* infinity or a value outside int, and the test then goes either way.     *)
(***************************************************************************)
\* lines 152-156: the inner Wet_bulb holds u, W_new is assigned, the test is
\* made, and on exit the function returns the outer Wet_bulb, which psych
\* stores in out (line 384)
WbAssign(u) ==
  \E again \in wb.next[u].again :
    /\ wb' = [wb EXCEPT !.W_new = wb.next[u].W_new, !.guess = u]
    /\ IF again
       THEN /\ pc' = "wb_loop"
            /\ UNCHANGED <<loc, unset, tainted>>
       ELSE /\ pc' = "denormalize"
            /\ loc' = [loc EXCEPT !["out"] = wb.Wet_bulb]
            /\ unset' = unset \ {"out"}
            /\ tainted' = IF "RH" \in unset \cup tainted
                          THEN tainted \cup {"out"} ELSE tainted

WbIterate ==
  /\ pc = "wb_loop"
  /\ \E u \in IndetVals : WbAssign(u)
  /\ UNCHANGED <<argP, argTdb, argIn, P, Tdb, inValue, inType, outType, SIq,
                 badReads, ret>>

(***************************************************************************)
(* Lines 418-442: the result goes back to US customary units and is        *)
(* returned.                                                               *)
(***************************************************************************)
\* line 418: the output side takes only SIq = 0 for US customary units
OutputIsIP(sq) == sq = 0

\* lines 422, 425
C2F(x) == Eval(Add(Mul(DecE(18, 1), x), FxInt(32)))

\* line 429: newtons in a pound-force, as the output side has it
LbfOut == LitOf(<<4, 4482, 3053, 1000, 0, 0>>)

\* line 429: Pa to PSI
PaToPsi(x) == Eval(Div(Mul(x, PowInt(Inch, 2)), LbfOut))

\* line 432: the zero-point difference on the way out
HOffOut == LitOf(<<17, 8844, 4444, 4440, 0, 0>>)

\* line 432: kJ/kg to BTU/lb
HToIP(x) == Eval(Div(Mul(Add(x, HOffOut), KGperLB), KJperBTU))

\* lines 436, 439: kg in a pound, as the volume and density cases have it
KGperLBVol == DecE(45359265, 8)

\* lines 436, 439: 12 * 0.0254
Foot == Mul(FxInt(12), Inch)

\* line 436: m^3/kg to ft^3/lb
VolToIP(x) == Eval(Div(Mul(x, KGperLBVol), PowInt(Foot, 3)))

\* line 439: kg/m^3 to lb/ft^3
DensToIP(x) == Eval(Div(Mul(x, PowInt(Foot, 3)), KGperLBVol))

\* an output side that would take every result for a temperature
ToIPTemperature(ot, x) == C2F(x)

\* lines 419-441
ToIP(ot, x) ==
  CASE ot = 1  -> C2F(x)
    [] ot = 2  -> C2F(x)
    [] ot = 5  -> PaToPsi(x)
    [] ot = 7  -> HToIP(x)
    [] ot = 9  -> VolToIP(x)
    [] ot = 10 -> DensToIP(x)
    [] OTHER   -> x

Denormalize ==
  /\ pc = "denormalize"
  /\ pc' = "return"
  /\ loc' = IF OutputIsIP(SIq) /\ "out" \notin unset
            THEN [loc EXCEPT !["out"] = ToIP(outType, loc["out"])]
            ELSE loc
  /\ UNCHANGED <<argP, argTdb, argIn, P, Tdb, inValue, inType, outType, SIq,
                 unset, badReads, tainted, wb, ret>>

\* line 442
Return ==
  /\ pc = "return"
  /\ pc' = "done"
  /\ \E g \in Draw({"out"}) : ret' = Reading(g)["out"]
  /\ badReads' = badReads \cup ({"out"} \cap unset)
  /\ UNCHANGED <<argP, argTdb, argIn, P, Tdb, inValue, inType, outType, SIq,
                 loc, unset, tainted, wb>>

Next ==
  \/ Invoke
  \/ Normalize
  \/ Resolve
  \/ Output
  \/ WbIterate
  \/ Denormalize
  \/ Return

Spec == Init /\ [][Next]_vars

\* the program has one thread, which nothing stops: a call that is in the
\* loop of wet_bulb makes the next iteration
FairSpec == Spec /\ WF_vars(WbIterate)

(***************************************************************************)
(* The statements of the specification, over the program above.            *)
(***************************************************************************)
Given == {1, 2, 3, 4, 7}

UnitCodes == {0, 1}

Returned == pc = "done"

\* C1: with inType = 4 and outType = 4, under SIq = 1 and SIq = 0 alike, the
\* call returns exactly the humidity ratio the caller supplied.
C1_HumidityRatioPassThrough ==
  (Returned /\ inType = 4 /\ outType = 4 /\ SIq \in UnitCodes) => ret = argIn

\* C2: for inType in {1, 2, 3, 4, 7}, outType in 1..10 and SIq in {0, 1}, none
\* of the locals Twb, Dew, RH, W, h is read before it was assigned.
C2_NoReadBeforeAssignment ==
  (inType \in Given /\ outType \in OutCases /\ SIq \in UnitCodes)
    => badReads \cap {"Twb", "Dew", "RH", "W", "h"} = {}

\* C3: wet_bulb returns the last Newton iterate, the temperature the final
\* W_new was computed from.
C3_WetBulbReturnsLastIterate ==
  (pc = "denormalize" /\ outType = 1) => loc["out"] = wb.guess

\* C4: wet_bulb terminates on every input: a call that entered the loop of
\* wet_bulb leaves it.
C4_WetBulbTerminates ==
  (pc = "wb_loop" /\ inType \in Given /\ SIq \in UnitCodes) ~> (pc # "wb_loop")

\* C5: with outType = 8 the call returns -9999, for every inType in
\* {1, 2, 3, 4, 7} and under both unit systems.
C5_EntropyPlaceholder ==
  (Returned /\ outType = 8 /\ inType \in Given /\ SIq \in UnitCodes)
    => ret = FxInt(-9999)

C5_Witness ==
  Returned /\ outType = 8 /\ inType = 7 /\ SIq = 0 /\ ret = FxInt(-9999)

\* C6, as the source has it: with SIq = 1 the input side leaves Tdb and the
\* inValue it received as they are and divides P by 1000, P being supplied
\* in Pa; P is rescaled under both unit systems.
C6_SIInputs ==
  (pc = "resolve" /\ SIq = 1)
    => /\ Tdb = argTdb
       /\ Eval(Mul(P, Fx1000)) = argP
       /\ \A v \in InVar(inType) : loc[v] = FxInt(inValue)

C6_Witness ==
  /\ pc = "resolve" /\ SIq = 1 /\ inType = 3
  /\ argP = FxInt(101325) /\ P = DecE(101325, 3)
  /\ Tdb = FxInt(24) /\ loc["RH"] = FxInt(inValue)

\* C6, as the specification has it: with SIq = 1 the input side changes
\* nothing, and P, Tdb and inValue reach the primitives exactly as the caller
\* supplied them.
C6_SIInputsUntouched ==
  (pc = "resolve" /\ SIq = 1)
    => /\ Tdb = argTdb
       /\ P = argP
       /\ \A v \in InVar(inType) : loc[v] = argIn

\* what a round trip through doubles may lose
RoundTripTol == DecE(1, 12)

Close(x, y) == FxLe(FxAbs(Eval(Sub(x, y))), RoundTripTol)

\* C7: the US customary conversions of the output side invert those of the
\* input side: F -> C -> F, PSI -> kPa -> Pa -> PSI and BTU/lb -> kJ/kg ->
\* BTU/lb give back the value they were given, and the factors of specific
\* volume and density are reciprocals of each other.
C7_ConversionsInvert ==
  (Returned /\ SIq = 0)
    => /\ Close(C2F(F2C(argTdb)), argTdb)
       /\ Close(PaToPsi(Eval(Mul(PsiToKPa(argP), Fx1000))), argP)
       /\ Close(HToIP(HToSI(FxInt(inValue))), FxInt(inValue))
       /\ Close(Eval(Mul(VolToIP(Fx1), DensToIP(Fx1))), Fx1)

\* C8: with inType = 3 and outType = 3 the call returns the relative
\* humidity the caller supplied, a fraction between 0 and 1 included.
C8_RelativeHumidityPassThrough ==
  (Returned /\ inType = 3 /\ outType = 3 /\ SIq \in UnitCodes
     /\ FxLe(Fx0, argIn) /\ FxLe(argIn, Fx1))
    => ret = argIn

\* C9: a call with an inType or an outType outside the table never returns
\* a value that is, or was computed from, a variable nothing was assigned to.
C9_InvalidSelectorReturnsNoGarbage ==
  (Returned /\ (inType \notin Given \/ outType \notin OutCases))
    => "out" \notin badReads \cup tainted

\* C10: for every integer SIq the two sides agree on the unit system: the
\* result is converted to US customary units exactly when the inputs were
\* converted from them.  Seen on the temperatures: Tdb differs from the
\* argument when the input side converted it, and out changes in the last
\* block when the output side converts it.
C10_SidesAgreeOnUnits ==
  [][(pc = "denormalize" /\ outType \in {1, 2} /\ IsFin(loc["out"]))
       => ((Tdb # argTdb) <=> (loc'["out"] # loc["out"]))]_vars

=============================================================================
